---- MODULE Spec2Model ----
(***************************************************************************)
(* Model of the DCL wearable validator: the triangle-budget resolver       *)
(* (src/lib/budgets.ts) and the validation rule engine                     *)
(* (src/lib/runValidation.ts).                                             *)
(*                                                                         *)
(* The library functions are pure.  Each specification draws the           *)
(* arguments of the calls from bounded input sets in its initial state and *)
(* has one action per exported function; the value a call returns is       *)
(* recorded in `returned` under the function's name.  SpecCalls calls the  *)
(* two entry points repeatedly on the store's current values, between      *)
(* store changes, and keeps every call in the history `calls`.             *)
(*                                                                         *)
(* SpecControls runs the handlers of the controls panel on the store's     *)
(* selection; SpecFiles and SpecApp run the asynchronous handlers          *)
(* FileDrop.handleFile and ControlsPanel.handleAnalyze, step by step       *)
(* between their awaits, on the store's file state (`store`, `pending`).   *)
(***************************************************************************)
EXTENDS Integers, Sequences, FiniteSets, TLC

VARIABLES
    selection,   \* the UserSelection argument
    modelStats,  \* the ModelStats argument
    fileName,    \* the fileName argument
    returned,    \* function: name of an exported function that has returned
                 \* |-> the value it returned
    calls,       \* history of the repeated calls: one entry per call, with
                 \* the function, its arguments and the value it returned
    store,       \* the file state and the results of the zustand store:
                 \* file, model, modelStats, isLoading, error,
                 \* validationReport (the selection fields of the store are
                 \* `selection`)
    pending      \* the asynchronous handler calls (handleFile,
                 \* handleAnalyze) made so far, each with the values it
                 \* captured and its position

vars == <<selection, modelStats, fileName, returned, calls, store, pending>>

(***************************************************************************)
(* Bounds of the input sets.                                               *)
(***************************************************************************)
\* every hiddenSlots list of at most MaxLen entries is an input
MaxLen == 2
\* the head-hide lists are extended by at most MaxExtra further entries
MaxExtra == 1
\* a ModelStats input differs from the mock statistics in at most MaxOverrides
\* fields
MaxOverrides == 2
\* the history of repeated calls holds at most MaxCalls calls
MaxCalls == 2

(***************************************************************************)
(* src/lib/types.ts                                                        *)
(***************************************************************************)
\* type Slot, in declaration order
AllSlots ==
    << "hat", "helmet", "upper_body", "lower_body", "feet", "hair", "mask",
       "eyewear", "earring", "tiara", "top_head", "facial_hair", "hands",
       "skin", "head" >>

Slot == { AllSlots[i] : i \in 1..Len(AllSlots) }

\* handHidesBase?: boolean -- an optional property: the record either has the
\* field or lacks it (undefined, which is falsy)
Truthy(rec, fld) == fld \in DOMAIN rec /\ rec[fld] = TRUE

(***************************************************************************)
(* Helpers on sequences.                                                   *)
(***************************************************************************)
includes(seq, x) == \E i \in 1..Len(seq) : seq[i] = x

\* the set of the entries of a list
Entries(seq) == { seq[i] : i \in 1..Len(seq) }

Reverse(seq) == [ i \in 1..Len(seq) |-> seq[Len(seq) + 1 - i] ]

RemoveAt(seq, i) == SubSeq(seq, 1, i - 1) \o SubSeq(seq, i + 1, Len(seq))

SeqsUpTo(S, n) == UNION { [1..k -> S] : k \in 0..n }

(***************************************************************************)
(* src/lib/budgets.ts                                                      *)
(***************************************************************************)
\* mutant of BASE_TRI_BUDGET: hair entered as a small slot, out of step with
\* BASE_BUDGET_CONFIG
BASE_TRI_BUDGET_hairSmall ==
    [ hat |-> 1500, helmet |-> 1500, upper_body |-> 1500, lower_body |-> 1500,
      feet |-> 1500, hair |-> 500, mask |-> 500, eyewear |-> 500,
      earring |-> 500, tiara |-> 500, top_head |-> 500, facial_hair |-> 500,
      hands |-> 1000, skin |-> 5000, head |-> 500 ]

BASE_TRI_BUDGET ==
    [ hat |-> 1500, helmet |-> 1500, upper_body |-> 1500, lower_body |-> 1500,
      feet |-> 1500, hair |-> 1500, mask |-> 500, eyewear |-> 500,
      earring |-> 500, tiara |-> 500, top_head |-> 500, facial_hair |-> 500,
      hands |-> 1000, skin |-> 5000, head |-> 500 ]

HELMET_HIDE_SET ==
    << "head", "earring", "eyewear", "tiara", "hat", "facial_hair", "hair",
       "top_head" >>

BASE_BUDGET_CONFIG ==
    [ hat         |-> [baseTriangles |-> 1500, maxMaterials |-> 2, maxTextures |-> 2],
      helmet      |-> [baseTriangles |-> 1500, maxMaterials |-> 2, maxTextures |-> 2,
                       helmetAllHeadHiddenTriangles |-> 4000],
      upper_body  |-> [baseTriangles |-> 1500, maxMaterials |-> 2, maxTextures |-> 2],
      lower_body  |-> [baseTriangles |-> 1500, maxMaterials |-> 2, maxTextures |-> 2],
      feet        |-> [baseTriangles |-> 1500, maxMaterials |-> 2, maxTextures |-> 2],
      hair        |-> [baseTriangles |-> 1500, maxMaterials |-> 2, maxTextures |-> 2],
      mask        |-> [baseTriangles |-> 500, maxMaterials |-> 2, maxTextures |-> 2],
      eyewear     |-> [baseTriangles |-> 500, maxMaterials |-> 2, maxTextures |-> 2],
      earring     |-> [baseTriangles |-> 500, maxMaterials |-> 2, maxTextures |-> 2],
      tiara       |-> [baseTriangles |-> 500, maxMaterials |-> 2, maxTextures |-> 2],
      top_head    |-> [baseTriangles |-> 500, maxMaterials |-> 2, maxTextures |-> 2],
      facial_hair |-> [baseTriangles |-> 500, maxMaterials |-> 2, maxTextures |-> 2],
      hands       |-> [baseTriangles |-> 1000, maxMaterials |-> 2, maxTextures |-> 2],
      skin        |-> [baseTriangles |-> 5000, maxMaterials |-> 2, maxTextures |-> 5],
      head        |-> [baseTriangles |-> 500, maxMaterials |-> 2, maxTextures |-> 2] ]

\* BASE_TRI_BUDGET is an object literal: besides its own fifteen keys a lookup
\* finds the properties it inherits from Object.prototype, which are functions
\* (for __proto__, the prototype object itself)
ObjectPrototypeKeys ==
    { "constructor", "hasOwnProperty", "isPrototypeOf", "propertyIsEnumerable",
      "toLocaleString", "toString", "valueOf", "__proto__", "__defineGetter__",
      "__defineSetter__", "__lookupGetter__", "__lookupSetter__" }

\* a value that is no number: a function or object found in the table, and
\* the string an addition with such an operand gives (number + function is the
\* concatenation of their texts).  It is written -1, which no count and no
\* budget is; as a comparison with a non-numeric string is false, so is
\* n <= NonNumber for every count n >= 0
NonNumber == -1

\* a + b of JavaScript on these values: the sum of two numbers, a string as
\* soon as an operand is no number
jsAdd(a, b) == IF a = NonNumber \/ b = NonNumber THEN NonNumber ELSE a + b

\* (BASE_TRI_BUDGET[slot] || 0): an own key reads its number, an inherited key
\* its function or object (truthy, so it is kept), any other key undefined, and
\* undefined and 0 are both falsy
hiddenBudget(slot) ==
    IF slot \in DOMAIN BASE_TRI_BUDGET /\ BASE_TRI_BUDGET[slot] # 0
    THEN BASE_TRI_BUDGET[slot]
    ELSE IF slot \in ObjectPrototypeKeys
    THEN NonNumber
    ELSE 0

\* mutant of reduceHidden: the list is deduplicated before it is summed
RECURSIVE reduceHidden_dedup(_, _)
reduceHidden_dedup(hiddenSlots, sum) ==
    IF hiddenSlots = << >>
    THEN sum
    ELSE reduceHidden_dedup(
             Tail(hiddenSlots),
             IF includes(Tail(hiddenSlots), Head(hiddenSlots))
             THEN sum
             ELSE jsAdd(sum, hiddenBudget(Head(hiddenSlots))))

\* hiddenSlots.reduce((sum, slot) => sum + (BASE_TRI_BUDGET[slot] || 0), 0)
RECURSIVE reduceHidden(_, _)
reduceHidden(hiddenSlots, sum) ==
    IF hiddenSlots = << >>
    THEN sum
    ELSE reduceHidden(Tail(hiddenSlots), jsAdd(sum, hiddenBudget(Head(hiddenSlots))))

\* mutant of allHeadHidden: .some instead of .every
allHeadHidden_some(hiddenSlots) ==
    \E i \in 1..Len(HELMET_HIDE_SET) : includes(hiddenSlots, HELMET_HIDE_SET[i])

\* HELMET_HIDE_SET.every(slot => hiddenSlots.includes(slot))
allHeadHidden(hiddenSlots) ==
    \A i \in 1..Len(HELMET_HIDE_SET) : includes(hiddenSlots, HELMET_HIDE_SET[i])

\* mutant of computeTriangleBudget: the skin case is missing, skin combines
\* like any other slot
computeTriangleBudget_skinCombines(sel) ==
    IF sel.targetSlot = "hands" /\ Truthy(sel, "handHidesBase")
    THEN 1500
    ELSE LET baseBudget == BASE_TRI_BUDGET[sel.targetSlot]
             combinedBudget == jsAdd(baseBudget, reduceHidden(sel.hiddenSlots, 0))
         IN  IF sel.targetSlot = "helmet" /\ allHeadHidden(sel.hiddenSlots)
             THEN 4000
             ELSE combinedBudget

\* mutant of computeTriangleBudget: the hands override replaces the base only,
\* the hidden slots are still added
computeTriangleBudget_handsCombines(sel) ==
    IF sel.targetSlot = "skin"
    THEN 5000
    ELSE LET baseBudget == IF sel.targetSlot = "hands" /\ Truthy(sel, "handHidesBase")
                           THEN 1500
                           ELSE BASE_TRI_BUDGET[sel.targetSlot]
             combinedBudget == jsAdd(baseBudget, reduceHidden(sel.hiddenSlots, 0))
         IN  IF sel.targetSlot = "helmet" /\ allHeadHidden(sel.hiddenSlots)
             THEN 4000
             ELSE combinedBudget

\* mutant of computeTriangleBudget: the helmet override only ever raises the
\* budget, the additive sum is kept where it is larger than 4000
computeTriangleBudget_helmetFloor(sel) ==
    IF sel.targetSlot = "skin"
    THEN 5000
    ELSE IF sel.targetSlot = "hands" /\ Truthy(sel, "handHidesBase")
    THEN 1500
    ELSE LET baseBudget == BASE_TRI_BUDGET[sel.targetSlot]
             combinedBudget == jsAdd(baseBudget, reduceHidden(sel.hiddenSlots, 0))
         IN  IF /\ sel.targetSlot = "helmet"
                /\ allHeadHidden(sel.hiddenSlots)
                /\ combinedBudget < 4000
             THEN 4000
             ELSE combinedBudget

computeTriangleBudget(sel) ==
    IF sel.targetSlot = "skin"
    THEN 5000
    ELSE IF sel.targetSlot = "hands" /\ Truthy(sel, "handHidesBase")
    THEN 1500
    ELSE LET baseBudget == BASE_TRI_BUDGET[sel.targetSlot]
             combinedBudget == jsAdd(baseBudget, reduceHidden(sel.hiddenSlots, 0))
         IN  IF sel.targetSlot = "helmet" /\ allHeadHidden(sel.hiddenSlots)
             THEN 4000
             ELSE combinedBudget

getBudgetConfig(slot) == BASE_BUDGET_CONFIG[slot]

\* mutant of getAvailableTargetSlots: head is offered like every other slot
getAvailableTargetSlots_withHead ==
    << "hat", "helmet", "upper_body", "lower_body", "feet", "hair", "mask",
       "eyewear", "earring", "tiara", "top_head", "facial_hair", "hands", "skin",
       "head" >>

getAvailableTargetSlots ==
    << "hat", "helmet", "upper_body", "lower_body", "feet", "hair", "mask",
       "eyewear", "earring", "tiara", "top_head", "facial_hair", "hands", "skin" >>

\* the value null of a Slot | null
null == "<null>"

\* !targetSlot: null and the empty string are falsy
Falsy(targetSlot) == targetSlot \in {null, ""}

\* mutant of getAvailableHiddenSlots: the target is not filtered out
getAvailableHiddenSlots_keepsTarget(targetSlot) ==
    IF Falsy(targetSlot)
    THEN << >>
    ELSE getAvailableTargetSlots

getAvailableHiddenSlots(targetSlot) ==
    IF Falsy(targetSlot)
    THEN << >>
    ELSE LET allSlots == getAvailableTargetSlots
             notTarget(slot) == slot # targetSlot
         IN  SelectSeq(allSlots, notTarget)

\* mutant of isHelmetSpecialRule: the target slot is not looked at
isHelmetSpecialRule_anyTarget(sel) == allHeadHidden(sel.hiddenSlots)

isHelmetSpecialRule(sel) ==
    sel.targetSlot = "helmet" /\ allHeadHidden(sel.hiddenSlots)

getSkinRequiredHiddenSlots ==
    LET notSkin(slot) == slot # "skin"
    IN  SelectSeq(getAvailableTargetSlots, notSkin)

(***************************************************************************)
(* src/lib/runValidation.ts                                                *)
(*                                                                         *)
(* A RuleResult is [id, category, result] with a field tip where the code  *)
(* sets one (modelled by its fixed leading words); the display texts       *)
(* expected and actual are left out.  Lengths are in centimetres (2.42 m   *)
(* is 242), so the bounding boxes of the model are multiples of 0.01 m.    *)
(***************************************************************************)
RuleResult(id, category, result, hasTip, tip) ==
    IF hasTip
    THEN [id |-> id, category |-> category, result |-> result, tip |-> tip]
    ELSE [id |-> id, category |-> category, result |-> result]

\* mutant of validateTriangles: < instead of <=
validateTriangles_strict(stats, maxTriangles) ==
    LET actual == stats.triangleCount
        result == IF actual < maxTriangles THEN "PASS" ELSE "FAIL"
    IN  RuleResult("triangles", "Geometry", result, result = "FAIL", "Reduce triangles by")

validateTriangles(stats, maxTriangles) ==
    LET actual == stats.triangleCount
        result == IF actual <= maxTriangles THEN "PASS" ELSE "FAIL"
    IN  RuleResult("triangles", "Geometry", result, result = "FAIL", "Reduce triangles by")

validateMaterials(stats, maxMaterials) ==
    LET actual == stats.materialCountExclAvatarSkin
        result == IF actual <= maxMaterials THEN "PASS" ELSE "FAIL"
    IN  RuleResult("materials", "Materials", result, result = "FAIL", "Remove material(s)")

\* mutant of validateTextures: < instead of <=
validateTextures_strict(stats, maxTextures) ==
    LET actual == stats.usedTextureCount
        result == IF actual < maxTextures THEN "PASS" ELSE "FAIL"
    IN  RuleResult("textures", "Textures/Maps", result, result = "FAIL", "Remove texture(s)")

validateTextures(stats, maxTextures) ==
    LET actual == stats.usedTextureCount
        result == IF actual <= maxTextures THEN "PASS" ELSE "FAIL"
    IN  RuleResult("textures", "Textures/Maps", result, result = "FAIL", "Remove texture(s)")

\* mutant of validateTextureSizes: >= 1024 instead of > 1024
validateTextureSizes_inclusive(stats) ==
    LET oversized(t) == t.width >= 1024 \/ t.height >= 1024
        oversizedTextures == SelectSeq(stats.textures, oversized)
        result == IF Len(oversizedTextures) = 0 THEN "PASS" ELSE "FAIL"
    IN  RuleResult("texture-sizes", "Textures/Maps", result, result = "FAIL", "Resize")

validateTextureSizes(stats) ==
    \* textures.filter(t => t.width > 1024 || t.height > 1024)
    LET oversized(t) == t.width > 1024 \/ t.height > 1024
        oversizedTextures == SelectSeq(stats.textures, oversized)
        result == IF Len(oversizedTextures) = 0 THEN "PASS" ELSE "FAIL"
    IN  RuleResult("texture-sizes", "Textures/Maps", result, result = "FAIL", "Resize")

\* mutant of validateTextureSquare: a non-square texture is a failure
validateTextureSquare_fails(stats) ==
    LET nonSquare(t) == t.width # t.height
        nonSquareTextures == SelectSeq(stats.textures, nonSquare)
        result == IF Len(nonSquareTextures) = 0 THEN "PASS" ELSE "FAIL"
    IN  RuleResult("texture-square", "Textures/Maps", result, result = "FAIL", "Make square")

validateTextureSquare(stats) ==
    \* textures.filter(t => t.width !== t.height)
    LET nonSquare(t) == t.width # t.height
        nonSquareTextures == SelectSeq(stats.textures, nonSquare)
        result == IF Len(nonSquareTextures) = 0 THEN "PASS" ELSE "WARN"
    IN  RuleResult("texture-square", "Textures/Maps", result, result = "WARN", "Make square")

validateNormalMaps(stats) ==
    LET result == IF ~stats.hasNormalMaps THEN "PASS" ELSE "WARN"
    IN  RuleResult("normal-maps", "Textures/Maps", result, result = "WARN",
                   "Remove normal maps")

validateMetallicRoughnessMaps(stats) ==
    LET result == IF ~stats.hasMetallicRoughnessMaps THEN "PASS" ELSE "WARN"
    IN  RuleResult("metallic-roughness-maps", "Textures/Maps", result, result = "WARN",
                   "Remove metallic/roughness maps")

\* badRatio = badWeightVertices / totalVertices is compared with the literals
\* 0.03 and 0.005.  IEEE-754 division rounds the exact quotient to the nearest
\* double and the literals are the doubles nearest to 3/100 and 1/200, so for
\* counts below 10^15 (the quotient cannot round onto the literal unless it
\* equals it) badRatio > 0.03 is 100 * bad > 3 * total and badRatio > 0.005 is
\* 200 * bad > total.  With totalVertices = 0 the quotient is NaN (bad = 0,
\* every comparison false) or Infinity (bad > 0), which the products give too.
badRatioAbove3Percent(skinning) ==
    100 * skinning.badWeightVertices > 3 * skinning.totalVertices

badRatioAboveHalfPercent(skinning) ==
    200 * skinning.badWeightVertices > skinning.totalVertices

\* mutant of validateSkinWeights: >= instead of > at both thresholds
validateSkinWeights_inclusive(stats) ==
    IF "skinning" \notin DOMAIN stats
    THEN RuleResult("skin-weights", "Skin Weights", "PASS", FALSE, "")
    ELSE IF 100 * stats.skinning.badWeightVertices >= 3 * stats.skinning.totalVertices
    THEN RuleResult("skin-weights", "Skin Weights", "FAIL", TRUE, "Fix skin weights")
    ELSE IF 200 * stats.skinning.badWeightVertices >= stats.skinning.totalVertices
    THEN RuleResult("skin-weights", "Skin Weights", "WARN", TRUE,
                    "Some vertices have invalid skin weights")
    ELSE RuleResult("skin-weights", "Skin Weights", "PASS", FALSE, "")

validateSkinWeights(stats) ==
    IF "skinning" \notin DOMAIN stats
    THEN RuleResult("skin-weights", "Skin Weights", "PASS", FALSE, "")
    ELSE IF badRatioAbove3Percent(stats.skinning)
    THEN RuleResult("skin-weights", "Skin Weights", "FAIL", TRUE, "Fix skin weights")
    ELSE IF badRatioAboveHalfPercent(stats.skinning)
    THEN RuleResult("skin-weights", "Skin Weights", "WARN", TRUE,
                    "Some vertices have invalid skin weights")
    ELSE RuleResult("skin-weights", "Skin Weights", "PASS", FALSE, "")

\* mutant of validateDimensions: && instead of || between the three tests
validateDimensions_allExceeded(stats) ==
    LET maxWidth == 242
        maxHeight == 242
        maxDepth == 140
        exceedsWidth == stats.bbox.width > maxWidth
        exceedsHeight == stats.bbox.height > maxHeight
        exceedsDepth == stats.bbox.depth > maxDepth
        result == IF exceedsWidth /\ exceedsHeight /\ exceedsDepth THEN "FAIL" ELSE "PASS"
    IN  RuleResult("dimensions", "Dimensions", result, result = "FAIL", "Scale down model")

validateDimensions(stats) ==
    LET maxWidth == 242
        maxHeight == 242
        maxDepth == 140
        exceedsWidth == stats.bbox.width > maxWidth
        exceedsHeight == stats.bbox.height > maxHeight
        exceedsDepth == stats.bbox.depth > maxDepth
        result == IF exceedsWidth \/ exceedsHeight \/ exceedsDepth THEN "FAIL" ELSE "PASS"
    IN  RuleResult("dimensions", "Dimensions", result, result = "FAIL", "Scale down model")

\* mutant of validateFileIntegrity: a failure only when both counts are zero
validateFileIntegrity_bothZero(stats) ==
    LET hasZeroTriangles == stats.triangleCount = 0
        hasNoMaterials == stats.materialCountExclAvatarSkin = 0
        result == IF hasZeroTriangles /\ hasNoMaterials THEN "FAIL" ELSE "PASS"
    IN  RuleResult("file-integrity", "File Integrity", result, result = "FAIL",
                   "Check model export")

validateFileIntegrity(stats) ==
    LET hasZeroTriangles == stats.triangleCount = 0
        hasNoMaterials == stats.materialCountExclAvatarSkin = 0
        issues == (IF hasZeroTriangles THEN << "No triangles found" >> ELSE << >>)
                  \o (IF hasNoMaterials THEN << "No materials found" >> ELSE << >>)
        result == IF Len(issues) = 0 THEN "PASS" ELSE "FAIL"
    IN  RuleResult("file-integrity", "File Integrity", result, result = "FAIL",
                   "Check model export")

\* fileSizeMB = fileSizeBytes / (1024 * 1024) is a division by a power of two,
\* exact in binary floating point, so fileSizeMB > n is
\* fileSizeBytes > n * 1024 * 1024
\* mutant of validateFileSize: >= instead of > at both thresholds
validateFileSize_inclusive(stats) ==
    LET maxSizeMB == 3
        recommendedSizeMB == 1
    IN  IF stats.fileSizeBytes >= maxSizeMB * (1024 * 1024)
        THEN RuleResult("file-size", "File Integrity", "FAIL", TRUE,
                        "File size exceeds DCL limit")
        ELSE IF stats.fileSizeBytes >= recommendedSizeMB * (1024 * 1024)
        THEN RuleResult("file-size", "File Integrity", "WARN", TRUE, "File size is")
        ELSE RuleResult("file-size", "File Integrity", "PASS", FALSE, "")

validateFileSize(stats) ==
    LET maxSizeMB == 3
        recommendedSizeMB == 1
    IN  IF stats.fileSizeBytes > maxSizeMB * (1024 * 1024)
        THEN RuleResult("file-size", "File Integrity", "FAIL", TRUE,
                        "File size exceeds DCL limit")
        ELSE IF stats.fileSizeBytes > recommendedSizeMB * (1024 * 1024)
        THEN RuleResult("file-size", "File Integrity", "WARN", TRUE, "File size is")
        ELSE RuleResult("file-size", "File Integrity", "PASS", FALSE, "")

\* mutant of calculateOverallResult: the warnings are looked at first
calculateOverallResult_warnFirst(results) ==
    LET hasFail == \E i \in 1..Len(results) : results[i].result = "FAIL"
        hasWarn == \E i \in 1..Len(results) : results[i].result = "WARN"
    IN  IF hasWarn THEN "WARN" ELSE IF hasFail THEN "FAIL" ELSE "PASS"

calculateOverallResult(results) ==
    LET hasFail == \E i \in 1..Len(results) : results[i].result = "FAIL"
        hasWarn == \E i \in 1..Len(results) : results[i].result = "WARN"
    IN  IF hasFail THEN "FAIL" ELSE IF hasWarn THEN "WARN" ELSE "PASS"

\* mutant of generateNotes: the helmet note does not look at hiddenSlots
generateNotes_helmetAlways(stats, userSelection) ==
    (IF userSelection.targetSlot = "helmet"
     THEN << "Helmet with hidden slots: triangle budget combines hidden slot budgets." >>
     ELSE << >>)
    \o
    (IF userSelection.targetSlot = "hands" /\ Truthy(userSelection, "handHidesBase")
     THEN << "Hand accessory hides base hand: triangle budget increased to 1.5k." >>
     ELSE << >>)

generateNotes(stats, userSelection) ==
    (IF userSelection.targetSlot = "helmet" /\ Len(userSelection.hiddenSlots) > 0
     THEN << "Helmet with hidden slots: triangle budget combines hidden slot budgets." >>
     ELSE << >>)
    \o
    (IF userSelection.targetSlot = "hands" /\ Truthy(userSelection, "handHidesBase")
     THEN << "Hand accessory hides base hand: triangle budget increased to 1.5k." >>
     ELSE << >>)

\* mutant of runValidation: the report carries the target's base allowance
\* instead of the budget the triangles rule was given
runValidation_baseBudget(stats, userSelection, name) ==
    LET appliedTriangleBudget == computeTriangleBudget(userSelection)
        budgetConfig == getBudgetConfig(userSelection.targetSlot)
        results ==
            << validateTriangles(stats, appliedTriangleBudget),
               validateMaterials(stats, budgetConfig.maxMaterials),
               validateTextures(stats, budgetConfig.maxTextures),
               validateTextureSizes(stats),
               validateTextureSquare(stats),
               validateNormalMaps(stats),
               validateMetallicRoughnessMaps(stats) >>
            \o (IF "skinning" \in DOMAIN stats
                THEN << validateSkinWeights(stats) >>
                ELSE << >>)
            \o << validateDimensions(stats),
                  validateFileIntegrity(stats),
                  validateFileSize(stats) >>
        overall == calculateOverallResult(results)
        notes == generateNotes(stats, userSelection)
    IN  [ overall |-> overall,
          targetSlot |-> userSelection.targetSlot,
          appliedTriangleBudget |-> budgetConfig.baseTriangles,
          maxMaterials |-> budgetConfig.maxMaterials,
          maxTextures |-> budgetConfig.maxTextures,
          results |-> results,
          notes |-> notes,
          fileName |-> name,
          modelStats |-> stats ]

\* mutant of runValidation: the results array lives at module level and is
\* not emptied between calls, so a call appends to the results of the call
\* before it
runValidation_sharedResults(stats, userSelection, name) ==
    LET appliedTriangleBudget == computeTriangleBudget(userSelection)
        budgetConfig == getBudgetConfig(userSelection.targetSlot)
        results ==
            (IF "runValidation" \in DOMAIN returned
             THEN returned["runValidation"].results
             ELSE << >>)
            \o << validateTriangles(stats, appliedTriangleBudget),
                  validateMaterials(stats, budgetConfig.maxMaterials),
                  validateTextures(stats, budgetConfig.maxTextures),
                  validateTextureSizes(stats),
                  validateTextureSquare(stats),
                  validateNormalMaps(stats),
                  validateMetallicRoughnessMaps(stats) >>
            \o (IF "skinning" \in DOMAIN stats
                THEN << validateSkinWeights(stats) >>
                ELSE << >>)
            \o << validateDimensions(stats),
                  validateFileIntegrity(stats),
                  validateFileSize(stats) >>
        overall == calculateOverallResult(results)
        notes == generateNotes(stats, userSelection)
    IN  [ overall |-> overall,
          targetSlot |-> userSelection.targetSlot,
          appliedTriangleBudget |-> appliedTriangleBudget,
          maxMaterials |-> budgetConfig.maxMaterials,
          maxTextures |-> budgetConfig.maxTextures,
          results |-> results,
          notes |-> notes,
          fileName |-> name,
          modelStats |-> stats ]

\* mutant of runValidation: the skin-weights rule is pushed whether or not the
\* statistics carry skinning data
runValidation_alwaysSkinWeights(stats, userSelection, name) ==
    LET appliedTriangleBudget == computeTriangleBudget(userSelection)
        budgetConfig == getBudgetConfig(userSelection.targetSlot)
        results ==
            << validateTriangles(stats, appliedTriangleBudget),
               validateMaterials(stats, budgetConfig.maxMaterials),
               validateTextures(stats, budgetConfig.maxTextures),
               validateTextureSizes(stats),
               validateTextureSquare(stats),
               validateNormalMaps(stats),
               validateMetallicRoughnessMaps(stats),
               validateSkinWeights(stats),
               validateDimensions(stats),
               validateFileIntegrity(stats),
               validateFileSize(stats) >>
        overall == calculateOverallResult(results)
        notes == generateNotes(stats, userSelection)
    IN  [ overall |-> overall,
          targetSlot |-> userSelection.targetSlot,
          appliedTriangleBudget |-> appliedTriangleBudget,
          maxMaterials |-> budgetConfig.maxMaterials,
          maxTextures |-> budgetConfig.maxTextures,
          results |-> results,
          notes |-> notes,
          fileName |-> name,
          modelStats |-> stats ]

runValidation(stats, userSelection, name) ==
    LET appliedTriangleBudget == computeTriangleBudget(userSelection)
        budgetConfig == getBudgetConfig(userSelection.targetSlot)
        results ==
            << validateTriangles(stats, appliedTriangleBudget),
               validateMaterials(stats, budgetConfig.maxMaterials),
               validateTextures(stats, budgetConfig.maxTextures),
               validateTextureSizes(stats),
               validateTextureSquare(stats),
               validateNormalMaps(stats),
               validateMetallicRoughnessMaps(stats) >>
            \o (IF "skinning" \in DOMAIN stats
                THEN << validateSkinWeights(stats) >>
                ELSE << >>)
            \o << validateDimensions(stats),
                  validateFileIntegrity(stats),
                  validateFileSize(stats) >>
        overall == calculateOverallResult(results)
        notes == generateNotes(stats, userSelection)
    IN  [ overall |-> overall,
          targetSlot |-> userSelection.targetSlot,
          appliedTriangleBudget |-> appliedTriangleBudget,
          maxMaterials |-> budgetConfig.maxMaterials,
          maxTextures |-> budgetConfig.maxTextures,
          results |-> results,
          notes |-> notes,
          fileName |-> name,
          modelStats |-> stats ]

(***************************************************************************)
(* Inputs.                                                                 *)
(***************************************************************************)
\* createMockModelStats() of src/tests/runValidation.test.ts
\* (lengths in centimetres, the unused normals ratios in thousandths)
MockModelStats ==
    [ triangleCount |-> 1000,
      materialCountExclAvatarSkin |-> 2,
      textures |-> << [name |-> "baseColor", width |-> 512, height |-> 512],
                      [name |-> "emission", width |-> 256, height |-> 256] >>,
      usedTextureCount |-> 2,
      hasNormalMaps |-> FALSE,
      hasMetallicRoughnessMaps |-> FALSE,
      alphaModes |-> << "OPAQUE", "MASK" >>,
      bbox |-> [width |-> 100, height |-> 200, depth |-> 50],
      normals |-> [invertedVertexRatio |-> 5, invertedFaceRatio |-> 10],
      fileSizeBytes |-> 500 * 1024 ]

\* the head-hide list, complete, with one of its entries left out, or in
\* reverse order
HeadHideLists ==
    {HELMET_HIDE_SET, Reverse(HELMET_HIDE_SET)}
    \cup { RemoveAt(HELMET_HIDE_SET, i) : i \in 1..Len(HELMET_HIDE_SET) }

\* hiddenSlots lists of the unit tests that are longer than MaxLen
TestLists ==
    { << "lower_body", "feet", "hat", "mask" >>,
      << "lower_body", "feet", "hat", "mask", "eyewear" >>,
      << "head", "earring", "eyewear" >> }

HiddenInputs ==
    SeqsUpTo(Slot, MaxLen)
    \cup TestLists
    \cup { l \o e : l \in HeadHideLists, e \in SeqsUpTo(Slot, MaxExtra) }

SelectionInputs ==
    { [targetSlot |-> t, hiddenSlots |-> h] : t \in Slot, h \in HiddenInputs }
    \cup [targetSlot : Slot, hiddenSlots : HiddenInputs, handHidesBase : BOOLEAN]

\* src/state/useStore.ts, initialState: the file state and the results.  A
\* field that is null or an object is the empty sequence or the sequence of
\* that one object; error is null or a string
initialStore ==
    [ file |-> << >>,
      model |-> << >>,
      modelStats |-> << >>,
      isLoading |-> FALSE,
      error |-> null,
      validationReport |-> << >> ]

\* no exported function has returned yet
NoneReturned == [ f \in {} |-> 0 ]

Return(f, value) == returned' = (f :> value) @@ returned

HasReturned(f) == f \in DOMAIN returned

(***************************************************************************)
(* The budget resolver: computeTriangleBudget and isHelmetSpecialRule      *)
(* called on one selection.                                                *)
(***************************************************************************)
InitBudget ==
    /\ selection \in SelectionInputs
    /\ modelStats = MockModelStats
    /\ fileName = "test.glb"
    /\ returned = NoneReturned
    /\ calls = << >>
    /\ store = initialStore
    /\ pending = << >>

ComputeTriangleBudget ==
    /\ ~HasReturned("computeTriangleBudget")
    /\ Return("computeTriangleBudget", computeTriangleBudget(selection))
    /\ UNCHANGED <<selection, modelStats, fileName, calls, store, pending>>

IsHelmetSpecialRule ==
    /\ ~HasReturned("isHelmetSpecialRule")
    /\ Return("isHelmetSpecialRule", isHelmetSpecialRule(selection))
    /\ UNCHANGED <<selection, modelStats, fileName, calls, store, pending>>

NextBudget ==
    \/ ComputeTriangleBudget
    \/ IsHelmetSpecialRule

SpecBudget == InitBudget /\ [][NextBudget]_vars

(***************************************************************************)
(* The two budget tables: computeTriangleBudget and getBudgetConfig called *)
(* on one selection.                                                       *)
(***************************************************************************)
BasicHiddenInputs == { << >>, << "hat", "mask" >>, HELMET_HIDE_SET }

\* every target slot with each basic hiddenSlots list and each handHidesBase
BasicSelections ==
    { [targetSlot |-> t, hiddenSlots |-> h] : t \in Slot, h \in BasicHiddenInputs }
    \cup [targetSlot : Slot, hiddenSlots : BasicHiddenInputs, handHidesBase : BOOLEAN]

InitTables ==
    /\ selection \in BasicSelections
    /\ modelStats = MockModelStats
    /\ fileName = "test.glb"
    /\ returned = NoneReturned
    /\ calls = << >>
    /\ store = initialStore
    /\ pending = << >>

GetBudgetConfig ==
    /\ ~HasReturned("getBudgetConfig")
    /\ Return("getBudgetConfig", getBudgetConfig(selection.targetSlot))
    /\ UNCHANGED <<selection, modelStats, fileName, calls, store, pending>>

NextTables ==
    \/ ComputeTriangleBudget
    \/ GetBudgetConfig

SpecTables == InitTables /\ [][NextTables]_vars

(***************************************************************************)
(* The rule engine: one call of runValidation.                             *)
(***************************************************************************)
Texture(name, width, height) == [name |-> name, width |-> width, height |-> height]

\* the values a field of the mock statistics is overridden with
OverrideValues ==
    [ triangleCount |-> {0, 500, 501, 1500, 1501, 2000, 4000, 4001, 5000, 5001},
      materialCountExclAvatarSkin |-> {0, 3},
      usedTextureCount |-> {3, 5, 6},
      textures |->
          { << >>,
            << Texture("baseColor", 1024, 1024) >>,
            << Texture("baseColor", 2048, 2048) >>,
            << Texture("baseColor", 512, 256) >>,
            << Texture("baseColor", 1025, 1024) >>,
            << Texture("baseColor", 512, 512), Texture("emission", 1024, 1025) >> },
      hasNormalMaps |-> {TRUE},
      hasMetallicRoughnessMaps |-> {TRUE},
      alphaModes |-> { << "BLEND" >> },
      bbox |->
          { [width |-> 242, height |-> 242, depth |-> 140],
            [width |-> 243, height |-> 242, depth |-> 140],
            [width |-> 242, height |-> 243, depth |-> 140],
            [width |-> 242, height |-> 242, depth |-> 141],
            [width |-> 300, height |-> 300, depth |-> 200] },
      skinning |->
          { [totalVertices |-> 1000, badWeightVertices |-> 0],
            [totalVertices |-> 1000, badWeightVertices |-> 5],
            [totalVertices |-> 1000, badWeightVertices |-> 6],
            [totalVertices |-> 1000, badWeightVertices |-> 10],
            [totalVertices |-> 1000, badWeightVertices |-> 30],
            [totalVertices |-> 1000, badWeightVertices |-> 31],
            [totalVertices |-> 1000, badWeightVertices |-> 50],
            [totalVertices |-> 200, badWeightVertices |-> 1],
            [totalVertices |-> 200, badWeightVertices |-> 6],
            [totalVertices |-> 200, badWeightVertices |-> 7],
            [totalVertices |-> 7, badWeightVertices |-> 7] },
      fileSizeBytes |->
          { 0, 1024 * 1024, 1024 * 1024 + 1, 3 * 512 * 1024,
            3 * 1024 * 1024, 3 * 1024 * 1024 + 1, 4 * 1024 * 1024 } ]

OverridePairs ==
    UNION { { <<f, v>> : v \in OverrideValues[f] } : f \in DOMAIN OverrideValues }

\* { ...defaults, ...overrides } for one overridden field
Override(st, f, v) ==
    IF f \in DOMAIN st THEN [st EXCEPT ![f] = v] ELSE (f :> v) @@ st

\* createMockModelStats(overrides) with at most n fields overridden
RECURSIVE StatsInputs(_)
StatsInputs(n) ==
    IF n = 0
    THEN {MockModelStats}
    ELSE LET prev == StatsInputs(n - 1)
         IN  prev \cup { Override(p[1], p[2][1], p[2][2]) : p \in prev \X OverridePairs }

\* createMockUserSelection() and three selections that take the special
\* branches of the resolver
CoreSelections ==
    { [targetSlot |-> "hat", hiddenSlots |-> << >>, handHidesBase |-> FALSE],
      [targetSlot |-> "helmet", hiddenSlots |-> HELMET_HIDE_SET, handHidesBase |-> FALSE],
      [targetSlot |-> "hands", hiddenSlots |-> << >>, handHidesBase |-> TRUE],
      [targetSlot |-> "skin", hiddenSlots |-> << "hat", "mask" >>] }

\* every basic selection with statistics overridden in at most one field, the
\* core selections with statistics overridden in up to MaxOverrides fields
ValidationInputs ==
    (StatsInputs(MaxOverrides) \X CoreSelections)
    \cup (StatsInputs(1) \X BasicSelections)

FileNames == { "test.glb", "model.glb" }

InitValidation ==
    /\ \E input \in ValidationInputs :
           /\ modelStats = input[1]
           /\ selection = input[2]
    /\ fileName \in FileNames
    /\ returned = NoneReturned
    /\ calls = << >>
    /\ store = initialStore
    /\ pending = << >>

RunValidation ==
    /\ ~HasReturned("runValidation")
    /\ Return("runValidation", runValidation(modelStats, selection, fileName))
    /\ UNCHANGED <<selection, modelStats, fileName, calls, store, pending>>

NextValidation == RunValidation

SpecValidation == InitValidation /\ [][NextValidation]_vars

(***************************************************************************)
(* Growing hiddenSlots: computeTriangleBudget called on a selection whose  *)
(* hiddenSlots is short, or is a head-hide list followed by a few further  *)
(* entries.                                                                *)
(***************************************************************************)
\* the entries that follow a head-hide list: a slot outside the head and one
\* of the head-hide slots
AppendExtras == { "feet", "hat" }

AppendHiddenInputs ==
    SeqsUpTo(Slot, 1)
    \cup TestLists
    \cup { l \o e : l \in HeadHideLists, e \in SeqsUpTo(AppendExtras, MaxExtra) }

AppendSelections ==
    [targetSlot : Slot, hiddenSlots : AppendHiddenInputs, handHidesBase : BOOLEAN]

InitAppend ==
    /\ selection \in AppendSelections
    /\ modelStats = MockModelStats
    /\ fileName = "test.glb"
    /\ returned = NoneReturned
    /\ calls = << >>
    /\ store = initialStore
    /\ pending = << >>

NextAppend == ComputeTriangleBudget

SpecAppend == InitAppend /\ [][NextAppend]_vars

(***************************************************************************)
(* The slot lists: getAvailableTargetSlots, getAvailableHiddenSlots and    *)
(* getSkinRequiredHiddenSlots called for one target (a slot, null or the   *)
(* empty string).                                                          *)
(***************************************************************************)
InitSlots ==
    /\ selection \in [ targetSlot : Slot \cup {null, ""},
                       hiddenSlots : { << >> },
                       handHidesBase : {FALSE} ]
    /\ modelStats = MockModelStats
    /\ fileName = "test.glb"
    /\ returned = NoneReturned
    /\ calls = << >>
    /\ store = initialStore
    /\ pending = << >>

GetAvailableTargetSlots ==
    /\ ~HasReturned("getAvailableTargetSlots")
    /\ Return("getAvailableTargetSlots", getAvailableTargetSlots)
    /\ UNCHANGED <<selection, modelStats, fileName, calls, store, pending>>

GetAvailableHiddenSlots ==
    /\ ~HasReturned("getAvailableHiddenSlots")
    /\ Return("getAvailableHiddenSlots", getAvailableHiddenSlots(selection.targetSlot))
    /\ UNCHANGED <<selection, modelStats, fileName, calls, store, pending>>

GetSkinRequiredHiddenSlots ==
    /\ ~HasReturned("getSkinRequiredHiddenSlots")
    /\ Return("getSkinRequiredHiddenSlots", getSkinRequiredHiddenSlots)
    /\ UNCHANGED <<selection, modelStats, fileName, calls, store, pending>>

NextSlots ==
    \/ GetAvailableTargetSlots
    \/ GetAvailableHiddenSlots
    \/ GetSkinRequiredHiddenSlots

SpecSlots == InitSlots /\ [][NextSlots]_vars

(***************************************************************************)
(* src/state/useStore.ts and src/components/ControlsPanel.tsx: the         *)
(* selection part of the store (targetSlot, hiddenSlots, handHidesBase)    *)
(* under the handlers of the controls panel.                               *)
(***************************************************************************)
\* initialState: targetSlot null, hiddenSlots [], handHidesBase false
initialSelection ==
    [targetSlot |-> null, hiddenSlots |-> << >>, handHidesBase |-> FALSE]

\* mutant of setTargetSlot: hiddenSlots is left as it is
setTargetSlot_keepsHidden(sel, slot) == [sel EXCEPT !.targetSlot = slot]

\* useStore.setTargetSlot: a truthy new target is removed from hiddenSlots
setTargetSlot(sel, slot) ==
    LET notSlot(s) == s # slot
    IN  [sel EXCEPT !.targetSlot = slot,
                    !.hiddenSlots = IF Falsy(slot) THEN @ ELSE SelectSeq(@, notSlot)]

\* useStore.setHiddenSlots
setHiddenSlots(sel, slots) == [sel EXCEPT !.hiddenSlots = slots]

\* useStore.setHandHidesBase
setHandHidesBase(sel, hides) == [sel EXCEPT !.handHidesBase = hides]

\* ControlsPanel.handleTargetSlotChange
handleTargetSlotChange(sel, slot) ==
    IF slot = "skin"
    THEN setHiddenSlots(setTargetSlot(sel, slot), getSkinRequiredHiddenSlots)
    ELSE setTargetSlot(sel, slot)

\* mutant of handleHiddenSlotToggle: no early return for a skin target
handleHiddenSlotToggle_noSkinGuard(sel, slot) ==
    LET notSlot(s) == s # slot
        newHiddenSlots == IF includes(sel.hiddenSlots, slot)
                          THEN SelectSeq(sel.hiddenSlots, notSlot)
                          ELSE Append(sel.hiddenSlots, slot)
    IN  setHiddenSlots(sel, newHiddenSlots)

\* ControlsPanel.handleHiddenSlotToggle
handleHiddenSlotToggle(sel, slot) ==
    IF sel.targetSlot = "skin" /\ includes(sel.hiddenSlots, slot)
    THEN sel
    ELSE LET notSlot(s) == s # slot
             newHiddenSlots == IF includes(sel.hiddenSlots, slot)
                               THEN SelectSeq(sel.hiddenSlots, notSlot)
                               ELSE Append(sel.hiddenSlots, slot)
         IN  setHiddenSlots(sel, newHiddenSlots)

\* the target select: one option per available target slot and the empty
\* "Select target slot..." option
HandleTargetSlotChange(slot) ==
    /\ slot \in Entries(getAvailableTargetSlots) \cup {""}
    /\ selection' = handleTargetSlotChange(selection, slot)
    /\ UNCHANGED <<modelStats, fileName, returned, calls, store, pending>>

\* the hidden-slot checkboxes: shown for a truthy target, one per available
\* hidden slot
HandleHiddenSlotToggle(slot) ==
    /\ ~Falsy(selection.targetSlot)
    /\ slot \in Entries(getAvailableHiddenSlots(selection.targetSlot))
    /\ selection' = handleHiddenSlotToggle(selection, slot)
    /\ UNCHANGED <<modelStats, fileName, returned, calls, store, pending>>

\* the handHidesBase checkbox: shown for a hands target
HandleHandHidesBaseChange ==
    /\ selection.targetSlot = "hands"
    /\ selection' = setHandHidesBase(selection, ~selection.handHidesBase)
    /\ UNCHANGED <<modelStats, fileName, returned, calls, store, pending>>

\* the targets and hidden slots the user picks
ControlsTargets == { "", "hat", "helmet", "hands", "skin" }

ControlsToggles == { "hat", "helmet", "mask", "skin" }

InitControls ==
    /\ selection = initialSelection
    /\ modelStats = MockModelStats
    /\ fileName = "test.glb"
    /\ returned = NoneReturned
    /\ calls = << >>
    /\ store = initialStore
    /\ pending = << >>

NextControls ==
    \/ \E slot \in ControlsTargets : HandleTargetSlotChange(slot)
    \/ \E slot \in ControlsToggles : HandleHiddenSlotToggle(slot)
    \/ HandleHandHidesBaseChange

SpecControls == InitControls /\ [][NextControls]_vars

(***************************************************************************)
(* Malformed selections: computeTriangleBudget and runValidation called on *)
(* a selection whose hiddenSlots holds identifiers that are no slots.      *)
(***************************************************************************)
\* identifiers that are none of the fifteen slots; the last two are names
\* every object inherits
UnknownIds == { "cape", "", "constructor", "__proto__" }

MalformedHiddenInputs == SeqsUpTo({"hat", "mask"} \cup UnknownIds, MaxLen)

MalformedSelections ==
    [targetSlot : Slot, hiddenSlots : MalformedHiddenInputs, handHidesBase : BOOLEAN]

InitMalformed ==
    /\ selection \in MalformedSelections
    /\ modelStats = MockModelStats
    /\ fileName = "test.glb"
    /\ returned = NoneReturned
    /\ calls = << >>
    /\ store = initialStore
    /\ pending = << >>

NextMalformed ==
    \/ ComputeTriangleBudget
    \/ RunValidation

SpecMalformed == InitMalformed /\ [][NextMalformed]_vars

(***************************************************************************)
(* Repeated calls: computeTriangleBudget (BudgetCard) and runValidation    *)
(* (ControlsPanel.handleAnalyze) called again and again on the store's     *)
(* current selection and statistics, while the store's setters change      *)
(* them between the calls.                                                 *)
(***************************************************************************)
\* the target slots chosen between the calls
CallSlots == { "hat", "hands" }

\* the statistics set between the calls: the mock statistics, and the mock
\* statistics with 1501 triangles and normal maps
CallStats ==
    { MockModelStats,
      Override(Override(MockModelStats, "triangleCount", 1501), "hasNormalMaps", TRUE) }

InitCalls ==
    /\ selection = [targetSlot |-> "hands", hiddenSlots |-> << "hat" >>,
                    handHidesBase |-> FALSE]
    /\ modelStats = MockModelStats
    /\ fileName \in FileNames
    /\ returned = NoneReturned
    /\ calls = << >>
    /\ store = initialStore
    /\ pending = << >>

\* useStore.setTargetSlot: the new target is removed from hiddenSlots
SetTargetSlot ==
    \E slot \in CallSlots :
        LET notSlot(s) == s # slot
        IN  /\ selection' = [selection EXCEPT !.targetSlot = slot,
                                              !.hiddenSlots = SelectSeq(@, notSlot)]
            /\ UNCHANGED <<modelStats, fileName, returned, calls, store, pending>>

\* useStore.setHandHidesBase
SetHandHidesBase ==
    \E hides \in BOOLEAN :
        /\ selection' = [selection EXCEPT !.handHidesBase = hides]
        /\ UNCHANGED <<modelStats, fileName, returned, calls, store, pending>>

\* useStore.setModelStats
SetModelStats ==
    \E stats \in CallStats :
        /\ modelStats' = stats
        /\ UNCHANGED <<selection, fileName, returned, calls, store, pending>>

\* BudgetCard: computeTriangleBudget(userSelection)
CallComputeTriangleBudget ==
    /\ Len(calls) < MaxCalls
    /\ LET value == computeTriangleBudget(selection)
       IN  /\ Return("computeTriangleBudget", value)
           /\ calls' = Append(calls, [ fn |-> "computeTriangleBudget",
                                       args |-> << selection >>,
                                       value |-> value ])
    /\ UNCHANGED <<selection, modelStats, fileName, store, pending>>

\* handleAnalyze: runValidation(modelStats, userSelection, fileName)
CallRunValidation ==
    /\ Len(calls) < MaxCalls
    /\ LET value == runValidation(modelStats, selection, fileName)
       IN  /\ Return("runValidation", value)
           /\ calls' = Append(calls, [ fn |-> "runValidation",
                                       args |-> << modelStats, selection, fileName >>,
                                       value |-> value ])
    /\ UNCHANGED <<selection, modelStats, fileName, store, pending>>

NextCalls ==
    \/ SetTargetSlot
    \/ SetHandHidesBase
    \/ SetModelStats
    \/ CallComputeTriangleBudget
    \/ CallRunValidation

SpecCalls == InitCalls /\ [][NextCalls]_vars

(***************************************************************************)
(* Loading and analysing: FileDrop.handleFile, ControlsPanel.handleAnalyze *)
(* and the store's reset (src/components/FileDrop.tsx,                    *)
(* src/components/ControlsPanel.tsx, src/state/useStore.ts).  Both         *)
(* handlers are asynchronous: a call runs up to its first await, and each  *)
(* continuation runs later, interleaved with every other handler.          *)
(***************************************************************************)
\* at most MaxAsyncCalls calls of handleFile and handleAnalyze are made
MaxAsyncCalls == 3

\* useStore.setFile
setFile(st, file) == [st EXCEPT !.file = << file >>]

\* mutant of setModel: a new model discards the report
setModel_clearsReport(st, model) ==
    [st EXCEPT !.model = << model >>, !.validationReport = << >>]

\* useStore.setModel
setModel(st, model) == [st EXCEPT !.model = << model >>]

\* useStore.setModelStats
setModelStats(st, stats) == [st EXCEPT !.modelStats = << stats >>]

\* useStore.setLoading
setLoading(st, loading) == [st EXCEPT !.isLoading = loading]

\* useStore.setError
setError(st, error) == [st EXCEPT !.error = error]

\* useStore.setValidationReport
setValidationReport(st, report) == [st EXCEPT !.validationReport = << report >>]

\* String.prototype.toLowerCase on the extensions of the dropped files
toLowerCase(text) ==
    CASE text = "GLB" -> "glb"
      [] text = "GLTF" -> "gltf"
      [] text = "TXT" -> "txt"
      [] OTHER -> text

\* a file name is the pair of its text before the last dot and its extension:
\* name.toLowerCase().endsWith('.glb') || name.toLowerCase().endsWith('.gltf')
hasModelExtension(name) == toLowerCase(name[2]) \in {"glb", "gltf"}

\* analyzeModel(model, fileSizeBytes): the statistics are those of the scene,
\* with the fileSizeBytes passed in
analyzeModel(model, fileSizeBytes) ==
    [MockModelStats EXCEPT !.triangleCount = model.triangleCount,
                           !.fileSizeBytes = fileSizeBytes]

\* mutant of handleFile_reject: the rejection also ends the loading state
handleFile_reject_stopsLoading(st) ==
    setLoading(setError(st, "Please select a .glb or .gltf file"), FALSE)

\* handleFile, the name is neither .glb nor .gltf: setError and return
handleFile_reject(st) == setError(st, "Please select a .glb or .gltf file")

\* handleFile up to its first await: setLoading(true), setError(null),
\* setFile(file)
handleFile_begin(st, file) ==
    setFile(setError(setLoading(st, TRUE), null), file)

\* handleFile after parseAsync has resolved: setModel, setModelStats of
\* analyzeModel(gltf.scene, file.size), and finally setLoading(false)
handleFile_loaded(st, file) ==
    setLoading(
        setModelStats(setModel(st, file.scene),
                           analyzeModel(file.scene, file.size)),
        FALSE)

\* handleFile when arrayBuffer or parseAsync has thrown: setError, and finally
\* setLoading(false)
handleFile_catch(st) ==
    setLoading(setError(st, "Failed to load model: Unknown error"), FALSE)

\* handleAnalyze after its imports: the file is read from the store now, the
\* model and the selection are the ones the call captured
handleAnalyze_report(st, model, userSelection) ==
    LET fileSizeBytes == IF st.file # << >> THEN st.file[1].size ELSE 0
        name == IF st.file # << >> THEN st.file[1].name ELSE << "model", "glb" >>
    IN  runValidation(analyzeModel(model, fileSizeBytes), userSelection, name)

\* the files dropped: two models that load (the second over the 3 MB limit
\* and over the triangle budget of a hat), one whose content does not parse,
\* one that cannot be read and one that is no model
DroppedFiles ==
    { [ name |-> << "a", "glb" >>, size |-> 500 * 1024, loads |-> "parsed",
        scene |-> [id |-> "a", triangleCount |-> 1000] ],
      [ name |-> << "B", "GLB" >>, size |-> 4 * 1024 * 1024, loads |-> "parsed",
        scene |-> [id |-> "B", triangleCount |-> 2000] ],
      [ name |-> << "broken", "gltf" >>, size |-> 10, loads |-> "parseThrows",
        scene |-> [id |-> "", triangleCount |-> 0] ],
      [ name |-> << "gone", "glb" >>, size |-> 20, loads |-> "readThrows",
        scene |-> [id |-> "", triangleCount |-> 0] ],
      [ name |-> << "notes", "TXT" >>, size |-> 30, loads |-> "parsed",
        scene |-> [id |-> "", triangleCount |-> 0] ] }

\* the entry of `pending` of a call that has returned: how it ended
Ended(handler, end) == [handler |-> handler, pc |-> end]

CallsOf(handler) == { i \in 1..Len(pending) : pending[i].handler = handler }

\* FileDrop (rendered while the store has no model): handleFile(file) up to
\* its first await, or to its return when the name is rejected
HandleFile(file) ==
    /\ store.model = << >>
    /\ Len(pending) < MaxAsyncCalls
    /\ IF hasModelExtension(file.name)
       THEN /\ store' = handleFile_begin(store, file)
            /\ pending' = Append(pending, [handler |-> "handleFile", file |-> file,
                                           pc |-> "arrayBuffer"])
       ELSE /\ store' = handleFile_reject(store)
            /\ pending' = Append(pending, Ended("handleFile", "rejected"))
    /\ UNCHANGED <<selection, modelStats, fileName, returned, calls>>

\* await file.arrayBuffer() settles: parseAsync starts, or the catch and
\* finally blocks run
HandleFileRead(i) ==
    /\ i \in CallsOf("handleFile")
    /\ pending[i].pc = "arrayBuffer"
    /\ IF pending[i].file.loads = "readThrows"
       THEN /\ store' = handleFile_catch(store)
            /\ pending' = [pending EXCEPT ![i] = Ended("handleFile", "failed")]
       ELSE /\ store' = store
            /\ pending' = [pending EXCEPT ![i].pc = "parseAsync"]
    /\ UNCHANGED <<selection, modelStats, fileName, returned, calls>>

\* await loader.parseAsync(...) settles: the rest of the try block and the
\* finally block run, or the catch and finally blocks
HandleFileParsed(i) ==
    /\ i \in CallsOf("handleFile")
    /\ pending[i].pc = "parseAsync"
    /\ IF pending[i].file.loads = "parseThrows"
       THEN /\ store' = handleFile_catch(store)
            /\ pending' = [pending EXCEPT ![i] = Ended("handleFile", "failed")]
       ELSE /\ store' = handleFile_loaded(store, pending[i].file)
            /\ pending' = [pending EXCEPT ![i] = Ended("handleFile", "loaded")]
    /\ UNCHANGED <<selection, modelStats, fileName, returned, calls>>

InitFiles ==
    /\ selection = initialSelection
    /\ modelStats = MockModelStats
    /\ fileName = "test.glb"
    /\ returned = NoneReturned
    /\ calls = << >>
    /\ store = initialStore
    /\ pending = << >>

NextFiles ==
    \/ \E file \in DroppedFiles : HandleFile(file)
    \/ \E i \in 1..Len(pending) : HandleFileRead(i)
    \/ \E i \in 1..Len(pending) : HandleFileParsed(i)

SpecFiles == InitFiles /\ [][NextFiles]_vars

\* the Analyze button (ControlsPanel is rendered while the store has a
\* model): handleAnalyze up to its first await
HandleAnalyze ==
    /\ store.model # << >>
    /\ ~Falsy(selection.targetSlot)
    /\ Len(pending) < MaxAsyncCalls
    /\ pending' = Append(pending, [handler |-> "handleAnalyze",
                                   model |-> store.model[1],
                                   userSelection |-> selection,
                                   pc |-> "import"])
    /\ UNCHANGED <<selection, modelStats, fileName, returned, calls, store>>

\* the imports of handleAnalyze have resolved: the report is computed and
\* stored
HandleAnalyzeImported(i) ==
    /\ i \in CallsOf("handleAnalyze")
    /\ pending[i].pc = "import"
    /\ store' = setValidationReport(
                    store,
                    handleAnalyze_report(store, pending[i].model,
                                         pending[i].userSelection))
    /\ pending' = [pending EXCEPT ![i] = Ended("handleAnalyze", "done")]
    /\ UNCHANGED <<selection, modelStats, fileName, returned, calls>>

\* useStore.reset: set(initialState)
Reset ==
    /\ store' = initialStore
    /\ selection' = initialSelection
    /\ UNCHANGED <<modelStats, fileName, returned, calls, pending>>

\* the files dropped, the targets chosen and the hidden slot toggled in
\* SpecApp: the two models that load
AppFiles == { file \in DroppedFiles : file.scene.id # "" }

AppTargets == { "hat", "hands" }

AppToggles == { "mask" }

InitApp ==
    /\ selection = initialSelection
    /\ modelStats = MockModelStats
    /\ fileName = "test.glb"
    /\ returned = NoneReturned
    /\ calls = << >>
    /\ store = initialStore
    /\ pending = << >>

NextApp ==
    \/ \E file \in AppFiles : HandleFile(file)
    \/ \E i \in 1..Len(pending) : HandleFileRead(i)
    \/ \E i \in 1..Len(pending) : HandleFileParsed(i)
    \/ (store.model # << >> /\ \E slot \in AppTargets : HandleTargetSlotChange(slot))
    \/ (store.model # << >> /\ \E slot \in AppToggles : HandleHiddenSlotToggle(slot))
    \/ (store.model # << >> /\ HandleHandHidesBaseChange)
    \/ HandleAnalyze
    \/ \E i \in 1..Len(pending) : HandleAnalyzeImported(i)
    \/ Reset

SpecApp == InitApp /\ [][NextApp]_vars

(***************************************************************************)
(* Properties of the budget resolver (of SpecBudget; the one on the two    *)
(* tables, of SpecTables; the one on appending, of SpecAppend).            *)
(***************************************************************************)
\* the value the call of f returned
Returned(f) == returned[f]

\* base triangle allowance by slot family: small slots 500, large slots 1500,
\* hands 1000, skin 5000
ExpectedBase(s) ==
    CASE s \in {"mask", "eyewear", "earring", "tiara", "top_head", "facial_hair", "head"} -> 500
      [] s \in {"hat", "helmet", "upper_body", "lower_body", "feet", "hair"} -> 1500
      [] s = "hands" -> 1000
      [] s = "skin" -> 5000

\* sum of the base allowances over the entries of a list, one term per
\* position, so an entry counts as often as it occurs
RECURSIVE ListSum(_)
ListSum(seq) ==
    IF Len(seq) = 0
    THEN 0
    ELSE ListSum(SubSeq(seq, 1, Len(seq) - 1)) + ExpectedBase(seq[Len(seq)])

HeadHideSlots ==
    {"head", "earring", "eyewear", "tiara", "hat", "facial_hair", "hair", "top_head"}

HidesWholeHead(sel) == HeadHideSlots \subseteq Entries(sel.hiddenSlots)

HandHidesBase(sel) == "handHidesBase" \in DOMAIN sel /\ sel.handHidesBase

\* C1: when the target is not skin, not hands with handHidesBase, and the
\* helmet override does not fire, computeTriangleBudget returns the base of the
\* target plus the sum of the bases of every entry of hiddenSlots, a repeated
\* entry counted as often as it occurs; upper_body hiding
\* [lower_body, feet, hat, mask] gives 6500.
C1_AdditiveBudget ==
    HasReturned("computeTriangleBudget") =>
        /\ ( /\ selection.targetSlot # "skin"
             /\ ~(selection.targetSlot = "hands" /\ HandHidesBase(selection))
             /\ ~(selection.targetSlot = "helmet" /\ HidesWholeHead(selection)) )
           => Returned("computeTriangleBudget")
                  = ExpectedBase(selection.targetSlot) + ListSum(selection.hiddenSlots)
        /\ ( /\ selection.targetSlot = "upper_body"
             /\ selection.hiddenSlots = << "lower_body", "feet", "hat", "mask" >> )
           => Returned("computeTriangleBudget") = 6500

\* a slot listed twice has been counted twice
C1_Witness ==
    /\ HasReturned("computeTriangleBudget")
    /\ selection.targetSlot = "upper_body"
    /\ selection.hiddenSlots = << "feet", "feet" >>
    /\ Returned("computeTriangleBudget") = 4500

\* C2: for a helmet target computeTriangleBudget returns exactly 4000 when
\* hiddenSlots contains all eight head-hide slots, in any order and whatever
\* else it contains, and the additive sum when one of the eight is missing;
\* [head, earring, eyewear] gives 3000.
C2_HelmetOverride ==
    (HasReturned("computeTriangleBudget") /\ selection.targetSlot = "helmet") =>
        /\ HidesWholeHead(selection) => Returned("computeTriangleBudget") = 4000
        /\ ~HidesWholeHead(selection)
           => Returned("computeTriangleBudget") = 1500 + ListSum(selection.hiddenSlots)
        /\ selection.hiddenSlots = << "head", "earring", "eyewear" >>
           => Returned("computeTriangleBudget") = 3000

\* the override has replaced the sum over the eight slots in reverse order
\* and a repeated hat
C2_Witness ==
    /\ HasReturned("computeTriangleBudget")
    /\ selection.targetSlot = "helmet"
    /\ selection.hiddenSlots = Reverse(HELMET_HIDE_SET) \o << "hat" >>
    /\ Returned("computeTriangleBudget") = 4000

C5_HandsOverride ==
    (HasReturned("computeTriangleBudget") /\ selection.targetSlot = "hands") =>
        /\ HandHidesBase(selection) => Returned("computeTriangleBudget") = 1500
        /\ (~HandHidesBase(selection) /\ selection.hiddenSlots = << >>)
           => Returned("computeTriangleBudget") = 1000

C5_Witness ==
    /\ HasReturned("computeTriangleBudget")
    /\ selection.targetSlot = "hands"
    /\ HandHidesBase(selection)
    /\ selection.hiddenSlots = << "upper_body", "mask" >>
    /\ Returned("computeTriangleBudget") = 1500

\* C6: isHelmetSpecialRule is true exactly when the target is helmet and
\* hiddenSlots contains all eight head-hide slots (so it is false for every
\* other target even with all eight hidden), and whenever it is true
\* computeTriangleBudget of the same selection is 4000.
C6_HelmetRulePredicate ==
    HasReturned("isHelmetSpecialRule") =>
        /\ Returned("isHelmetSpecialRule")
               <=> (selection.targetSlot = "helmet" /\ HidesWholeHead(selection))
        /\ (HasReturned("computeTriangleBudget") /\ Returned("isHelmetSpecialRule"))
           => Returned("computeTriangleBudget") = 4000

C6_Witness ==
    /\ HasReturned("isHelmetSpecialRule")
    /\ HasReturned("computeTriangleBudget")
    /\ selection.targetSlot = "helmet"
    /\ selection.hiddenSlots = HELMET_HIDE_SET \o << "feet" >>
    /\ Returned("isHelmetSpecialRule")
    /\ Returned("computeTriangleBudget") = 4000

\* C7: both tables are defined for each of the 15 slots, and for every slot
\* (head included) computeTriangleBudget with no hidden slots and
\* handHidesBase false equals getBudgetConfig(slot).baseTriangles, which is
\* 500 for the small slots, 1500 for the large ones, 1000 for hands and 5000
\* for skin.
C7_TablesAgree ==
    /\ Cardinality(Slot) = 15
    /\ Slot \subseteq DOMAIN BASE_TRI_BUDGET
    /\ Slot \subseteq DOMAIN BASE_BUDGET_CONFIG
    /\ HasReturned("getBudgetConfig") =>
           Returned("getBudgetConfig").baseTriangles = ExpectedBase(selection.targetSlot)
    /\ ( /\ HasReturned("getBudgetConfig")
         /\ HasReturned("computeTriangleBudget")
         /\ selection.hiddenSlots = << >>
         /\ ~HandHidesBase(selection) )
       => Returned("computeTriangleBudget") = Returned("getBudgetConfig").baseTriangles

C7_Witness ==
    /\ HasReturned("getBudgetConfig")
    /\ HasReturned("computeTriangleBudget")
    /\ selection.targetSlot = "head"
    /\ selection.hiddenSlots = << >>
    /\ "handHidesBase" \in DOMAIN selection /\ ~selection.handHidesBase
    /\ Returned("computeTriangleBudget") = 500
    /\ Returned("getBudgetConfig").baseTriangles = 500

\* the selection with one more slot appended to hiddenSlots
Appended(s) == [selection EXCEPT !.hiddenSlots = Append(@, s)]

\* C24 as stated: appending one more slot to hiddenSlots never lowers the
\* budget, for every target and handHidesBase; for helmet the override value
\* 4000 is never smaller than the additive sum it replaces.
C24_Monotone ==
    HasReturned("computeTriangleBudget") =>
        /\ \A s \in Slot :
               computeTriangleBudget(Appended(s)) >= Returned("computeTriangleBudget")
        /\ (selection.targetSlot = "helmet" /\ HidesWholeHead(selection))
               => Returned("computeTriangleBudget") >= 1500 + ListSum(selection.hiddenSlots)

\* C24 amended: appending one more slot never lowers the budget except where
\* the target is helmet and the appended slot completes the eight head-hide
\* slots: there the budget drops from the additive sum, at least 6000, to
\* 4000; and the override value 4000 is smaller than the additive sum, at
\* least 7500, it replaces.
C24_MonotoneButForHelmetOverride ==
    HasReturned("computeTriangleBudget") =>
        /\ \A s \in Slot :
               IF /\ selection.targetSlot = "helmet"
                  /\ ~HidesWholeHead(selection)
                  /\ HidesWholeHead(Appended(s))
               THEN /\ computeTriangleBudget(Appended(s)) = 4000
                    /\ Returned("computeTriangleBudget") >= 6000
               ELSE computeTriangleBudget(Appended(s)) >= Returned("computeTriangleBudget")
        /\ (selection.targetSlot = "helmet" /\ HidesWholeHead(selection))
               => /\ Returned("computeTriangleBudget") = 4000
                  /\ 1500 + ListSum(selection.hiddenSlots) >= 7500

\* a helmet hiding seven of the eight head-hide slots has 7000; with top_head
\* appended it has 4000
C24_Witness ==
    /\ HasReturned("computeTriangleBudget")
    /\ selection.targetSlot = "helmet"
    /\ selection.hiddenSlots = RemoveAt(HELMET_HIDE_SET, 8)
    /\ Returned("computeTriangleBudget") = 7000
    /\ computeTriangleBudget(Appended("top_head")) = 4000

(***************************************************************************)
(* Properties of the rule engine (of SpecValidation).                      *)
(***************************************************************************)
\* the report runValidation returned
Report == returned["runValidation"]

\* the entries of the report's results with the given rule id
RulesWithId(id) ==
    { i \in 1..Len(Report.results) : Report.results[i].id = id }

\* the entry of the given rule id (when there is one)
Rule(id) == Report.results[CHOOSE i \in RulesWithId(id) : TRUE]

HasSeverity(sev) ==
    \E i \in 1..Len(Report.results) : Report.results[i].result = sev

\* C8: the overall verdict of a report is FAIL if at least one entry of
\* results is FAIL (whatever warnings there are), otherwise WARN if at least
\* one entry is WARN, and PASS only if every entry is PASS.
C8_OverallVerdict ==
    HasReturned("runValidation") =>
        /\ HasSeverity("FAIL") => Report.overall = "FAIL"
        /\ (~HasSeverity("FAIL") /\ HasSeverity("WARN")) => Report.overall = "WARN"
        /\ Report.overall = "PASS"
               <=> \A i \in 1..Len(Report.results) : Report.results[i].result = "PASS"

\* a report with a failed rule and a warning, judged FAIL
C8_Witness ==
    /\ HasReturned("runValidation")
    /\ HasSeverity("FAIL")
    /\ HasSeverity("WARN")
    /\ Report.overall = "FAIL"

\* C9: the triangles rule is PASS exactly when triangleCount is at most
\* computeTriangleBudget(selection), equality included, and FAIL otherwise,
\* never WARN; it carries a tip exactly when it is FAIL.
C9_TrianglesRule ==
    HasReturned("runValidation") =>
        /\ Cardinality(RulesWithId("triangles")) = 1
        /\ Rule("triangles").result =
               IF modelStats.triangleCount <= computeTriangleBudget(selection)
               THEN "PASS"
               ELSE "FAIL"
        /\ "tip" \in DOMAIN Rule("triangles") <=> Rule("triangles").result = "FAIL"

\* a model with exactly the helmet override's 4000 triangles passes
C9_Witness ==
    /\ HasReturned("runValidation")
    /\ selection.targetSlot = "helmet"
    /\ selection.hiddenSlots = HELMET_HIDE_SET
    /\ modelStats.triangleCount = 4000
    /\ Rule("triangles").result = "PASS"
    /\ "tip" \notin DOMAIN Rule("triangles")

\* C10: with skinning data of totalVertices > 0, the skin-weights rule is PASS
\* when bad/total <= 0.005, WARN when 0.005 < bad/total <= 0.03 and FAIL when
\* bad/total > 0.03 (the ratios compared as fractions): 5/1000 is PASS,
\* 10/1000 and 30/1000 are WARN, 50/1000 is FAIL.
C10_SkinWeightsRule ==
    ( /\ HasReturned("runValidation")
      /\ "skinning" \in DOMAIN modelStats
      /\ modelStats.skinning.totalVertices > 0 ) =>
        LET bad == modelStats.skinning.badWeightVertices
            total == modelStats.skinning.totalVertices
            expected ==
                IF 1000 * bad <= 5 * total THEN "PASS"
                ELSE IF 100 * bad <= 3 * total THEN "WARN"
                ELSE "FAIL"
        IN  /\ Cardinality(RulesWithId("skin-weights")) = 1
            /\ Rule("skin-weights").result = expected
            /\ (total = 1000 /\ bad = 5) => Rule("skin-weights").result = "PASS"
            /\ (total = 1000 /\ bad \in {10, 30}) => Rule("skin-weights").result = "WARN"
            /\ (total = 1000 /\ bad = 50) => Rule("skin-weights").result = "FAIL"

\* exactly 3 % of the vertices are bad: a warning, not a failure
C10_Witness ==
    /\ HasReturned("runValidation")
    /\ "skinning" \in DOMAIN modelStats
    /\ modelStats.skinning = [totalVertices |-> 1000, badWeightVertices |-> 30]
    /\ Rule("skin-weights").result = "WARN"

\* the rule ids of the report's results, in order
RuleIds == [ i \in 1..Len(Report.results) |-> Report.results[i].id ]

C12_FileSizeRule ==
    HasReturned("runValidation") =>
        /\ Cardinality(RulesWithId("file-size")) = 1
        /\ Rule("file-size").result =
               IF modelStats.fileSizeBytes <= 1048576 THEN "PASS"
               ELSE IF modelStats.fileSizeBytes <= 3145728 THEN "WARN"
               ELSE "FAIL"
        /\ modelStats.fileSizeBytes = 1024 * 1024 => Rule("file-size").result = "PASS"
        /\ modelStats.fileSizeBytes = 3 * 1024 * 1024 => Rule("file-size").result = "WARN"

\* a file of exactly 3 MB: a warning, not a failure
C12_Witness ==
    /\ HasReturned("runValidation")
    /\ modelStats.fileSizeBytes = 3145728
    /\ Rule("file-size").result = "WARN"

\* the caps of a target slot: 2 materials for every slot, 5 textures for skin
\* and 2 for every other slot
ExpectedMaxMaterials(s) == 2

ExpectedMaxTextures(s) == IF s = "skin" THEN 5 ELSE 2

\* C13: the materials rule is PASS exactly when materialCountExclAvatarSkin
\* <= getBudgetConfig(targetSlot).maxMaterials and the textures rule is PASS
\* exactly when usedTextureCount <= getBudgetConfig(targetSlot).maxTextures,
\* FAIL otherwise; the caps are those of the target slot alone (2 materials
\* for every slot, 5 textures for skin, 2 for every other slot), whatever
\* hiddenSlots and handHidesBase are.
C13_MaterialAndTextureCaps ==
    HasReturned("runValidation") =>
        /\ getBudgetConfig(selection.targetSlot).maxMaterials
               = ExpectedMaxMaterials(selection.targetSlot)
        /\ getBudgetConfig(selection.targetSlot).maxTextures
               = ExpectedMaxTextures(selection.targetSlot)
        /\ Cardinality(RulesWithId("materials")) = 1
        /\ Cardinality(RulesWithId("textures")) = 1
        /\ Rule("materials").result =
               IF modelStats.materialCountExclAvatarSkin
                      <= ExpectedMaxMaterials(selection.targetSlot)
               THEN "PASS"
               ELSE "FAIL"
        /\ Rule("textures").result =
               IF modelStats.usedTextureCount <= ExpectedMaxTextures(selection.targetSlot)
               THEN "PASS"
               ELSE "FAIL"

\* a skin with exactly five textures passes, its hidden slots playing no part
C13_Witness ==
    /\ HasReturned("runValidation")
    /\ selection.targetSlot = "skin"
    /\ selection.hiddenSlots = << "hat", "mask" >>
    /\ modelStats.usedTextureCount = 5
    /\ Rule("textures").result = "PASS"
    /\ Rule("materials").result = "PASS"

\* C14: the texture-sizes rule is FAIL exactly when at least one entry of
\* stats.textures has width > 1024 or height > 1024, and PASS otherwise (a
\* 1024x1024 texture passes, an empty list passes); it is never WARN.
C14_TextureSizesRule ==
    HasReturned("runValidation") =>
        /\ Cardinality(RulesWithId("texture-sizes")) = 1
        /\ Rule("texture-sizes").result =
               IF \E i \in 1..Len(modelStats.textures) :
                      \/ modelStats.textures[i].width > 1024
                      \/ modelStats.textures[i].height > 1024
               THEN "FAIL"
               ELSE "PASS"
        /\ modelStats.textures = << >> => Rule("texture-sizes").result = "PASS"

\* a 1024x1024 texture passes
C14_Witness ==
    /\ HasReturned("runValidation")
    /\ modelStats.textures = << Texture("baseColor", 1024, 1024) >>
    /\ Rule("texture-sizes").result = "PASS"

AdvisoryRules == {"texture-square", "normal-maps", "metallic-roughness-maps"}

\* C15: texture-square, normal-maps and metallic-roughness-maps are never
\* FAIL: texture-square is WARN exactly when some texture has width # height,
\* normal-maps exactly when hasNormalMaps, metallic-roughness-maps exactly
\* when hasMetallicRoughnessMaps, PASS otherwise; a report whose only findings
\* are these is WARN overall.
C15_AdvisoryRules ==
    HasReturned("runValidation") =>
        /\ \A id \in AdvisoryRules : Cardinality(RulesWithId(id)) = 1
        /\ Rule("texture-square").result =
               IF \E i \in 1..Len(modelStats.textures) :
                      modelStats.textures[i].width # modelStats.textures[i].height
               THEN "WARN"
               ELSE "PASS"
        /\ Rule("normal-maps").result =
               IF modelStats.hasNormalMaps THEN "WARN" ELSE "PASS"
        /\ Rule("metallic-roughness-maps").result =
               IF modelStats.hasMetallicRoughnessMaps THEN "WARN" ELSE "PASS"
        /\ ( /\ \E id \in AdvisoryRules : Rule(id).result # "PASS"
             /\ \A i \in 1..Len(Report.results) :
                    Report.results[i].id \notin AdvisoryRules
                        => Report.results[i].result = "PASS" )
           => Report.overall = "WARN"

\* a non-square texture and normal maps, nothing else: WARN overall
C15_Witness ==
    /\ HasReturned("runValidation")
    /\ modelStats.textures = << Texture("baseColor", 512, 256) >>
    /\ modelStats.hasNormalMaps
    /\ Rule("texture-square").result = "WARN"
    /\ Rule("normal-maps").result = "WARN"
    /\ Report.overall = "WARN"

\* C16: the dimensions rule is PASS exactly when bbox.width <= 2.42 and
\* bbox.height <= 2.42 and bbox.depth <= 1.4 (in centimetres 242, 242, 140;
\* the limits themselves pass) and FAIL as soon as one of the three is
\* exceeded; it is never WARN.
C16_DimensionsRule ==
    HasReturned("runValidation") =>
        /\ Cardinality(RulesWithId("dimensions")) = 1
        /\ Rule("dimensions").result =
               IF /\ modelStats.bbox.width <= 242
                  /\ modelStats.bbox.height <= 242
                  /\ modelStats.bbox.depth <= 140
               THEN "PASS"
               ELSE "FAIL"

\* only the depth is over its limit: the rule fails
C16_Witness ==
    /\ HasReturned("runValidation")
    /\ modelStats.bbox = [width |-> 242, height |-> 242, depth |-> 141]
    /\ Rule("dimensions").result = "FAIL"

\* C17: the file-integrity rule is FAIL exactly when triangleCount = 0 or
\* materialCountExclAvatarSkin = 0, PASS otherwise; a model with zero
\* triangles or zero materials gets a report whose verdict is FAIL, although
\* its triangles rule (for zero triangles) and its materials rule (for zero
\* materials) PASS.
C17_FileIntegrityRule ==
    HasReturned("runValidation") =>
        /\ Cardinality(RulesWithId("file-integrity")) = 1
        /\ Rule("file-integrity").result =
               IF modelStats.triangleCount = 0 \/ modelStats.materialCountExclAvatarSkin = 0
               THEN "FAIL"
               ELSE "PASS"
        /\ (modelStats.triangleCount = 0 \/ modelStats.materialCountExclAvatarSkin = 0)
               => Report.overall = "FAIL"
        /\ modelStats.triangleCount = 0 => Rule("triangles").result = "PASS"
        /\ modelStats.materialCountExclAvatarSkin = 0 => Rule("materials").result = "PASS"

\* zero triangles and two materials: the triangles rule passes, the report
\* fails
C17_Witness ==
    /\ HasReturned("runValidation")
    /\ modelStats.triangleCount = 0
    /\ modelStats.materialCountExclAvatarSkin = 2
    /\ Rule("triangles").result = "PASS"
    /\ Rule("file-integrity").result = "FAIL"
    /\ Report.overall = "FAIL"

HelmetNote == "Helmet with hidden slots: triangle budget combines hidden slot budgets."

HandsNote == "Hand accessory hides base hand: triangle budget increased to 1.5k."

\* selections that get no note, with budgets 1500, 4000, 1500 and 1500
NoteFreeSelections ==
    { [targetSlot |-> "hat", hiddenSlots |-> << >>, handHidesBase |-> FALSE],
      [targetSlot |-> "hat", hiddenSlots |-> << "feet", "hands" >>, handHidesBase |-> FALSE],
      [targetSlot |-> "helmet", hiddenSlots |-> << >>, handHidesBase |-> FALSE],
      [targetSlot |-> "hands", hiddenSlots |-> << "mask" >>, handHidesBase |-> FALSE] }

\* C18: report.notes holds the helmet note exactly when the target is helmet
\* and hiddenSlots is non-empty, the hands note exactly when the target is
\* hands and handHidesBase is true, and nothing else, so at most one entry;
\* the notes play no part in results or verdict: a selection without a note
\* that has the same budget and caps gets the same results and verdict.
C18_Notes ==
    HasReturned("runValidation") =>
        /\ Report.notes =
               (IF selection.targetSlot = "helmet" /\ selection.hiddenSlots # << >>
                THEN << HelmetNote >>
                ELSE << >>)
               \o (IF selection.targetSlot = "hands" /\ HandHidesBase(selection)
                   THEN << HandsNote >>
                   ELSE << >>)
        /\ Len(Report.notes) <= 1
        /\ \A twin \in NoteFreeSelections :
               LET other == runValidation(modelStats, twin, fileName)
               IN  /\ other.notes = << >>
                   /\ ( /\ other.appliedTriangleBudget = Report.appliedTriangleBudget
                        /\ other.maxMaterials = Report.maxMaterials
                        /\ other.maxTextures = Report.maxTextures )
                      => /\ other.results = Report.results
                         /\ other.overall = Report.overall

\* a helmet hiding the whole head carries the helmet note and still passes
C18_Witness ==
    /\ HasReturned("runValidation")
    /\ selection.targetSlot = "helmet"
    /\ selection.hiddenSlots = HELMET_HIDE_SET
    /\ Report.notes = << HelmetNote >>
    /\ Report.overall = "PASS"

\* C19 as stated: when stats.alphaModes contains BLEND, the report contains a
\* rule with id alpha-mode whose result is WARN.
C19_AlphaModeRule ==
    (HasReturned("runValidation") /\ includes(modelStats.alphaModes, "BLEND")) =>
        \E i \in 1..Len(Report.results) :
            /\ Report.results[i].id = "alpha-mode"
            /\ Report.results[i].result = "WARN"

\* the mock statistics with alphaModes [BLEND]: no alpha-mode entry, and the
\* report passes
C19_Witness ==
    /\ HasReturned("runValidation")
    /\ modelStats = Override(MockModelStats, "alphaModes", << "BLEND" >>)
    /\ selection = [targetSlot |-> "hat", hiddenSlots |-> << >>, handHidesBase |-> FALSE]
    /\ RulesWithId("alpha-mode") = {}
    /\ Report.overall = "PASS"

\* C21: every report carries appliedTriangleBudget =
\* computeTriangleBudget(selection), the value the triangles rule compared
\* against; maxMaterials and maxTextures of getBudgetConfig(targetSlot); and
\* targetSlot, fileName and modelStats equal to the inputs.
C21_ReportEchoesInputs ==
    HasReturned("runValidation") =>
        /\ Report.appliedTriangleBudget = computeTriangleBudget(selection)
        /\ Rule("triangles").result = "PASS"
               <=> modelStats.triangleCount <= Report.appliedTriangleBudget
        /\ Report.maxMaterials = getBudgetConfig(selection.targetSlot).maxMaterials
        /\ Report.maxMaterials = ExpectedMaxMaterials(selection.targetSlot)
        /\ Report.maxTextures = getBudgetConfig(selection.targetSlot).maxTextures
        /\ Report.maxTextures = ExpectedMaxTextures(selection.targetSlot)
        /\ Report.targetSlot = selection.targetSlot
        /\ Report.fileName = fileName
        /\ Report.modelStats = modelStats

\* the report of a helmet hiding the whole head, for model.glb: budget 4000,
\* not the base 1500
C21_Witness ==
    /\ HasReturned("runValidation")
    /\ selection.targetSlot = "helmet"
    /\ selection.hiddenSlots = HELMET_HIDE_SET
    /\ fileName = "model.glb"
    /\ modelStats.triangleCount = 4001
    /\ Report.appliedTriangleBudget = 4000
    /\ Report.fileName = "model.glb"
    /\ Report.modelStats.triangleCount = 4001
    /\ Rule("triangles").result = "FAIL"

(***************************************************************************)
(* Properties of the slot lists (of SpecSlots).                            *)
(***************************************************************************)
NoDuplicates(seq) == \A i, j \in 1..Len(seq) : seq[i] = seq[j] => i = j

\* seq without its entries equal to x, in the order of seq
RECURSIVE Without(_, _)
Without(seq, x) ==
    IF seq = << >>
    THEN << >>
    ELSE IF Head(seq) = x
    THEN Without(Tail(seq), x)
    ELSE << Head(seq) >> \o Without(Tail(seq), x)

\* C23: getAvailableTargetSlots returns exactly the 14 slots other than head,
\* without duplicates; for every target t, getAvailableHiddenSlots(t) is that
\* list minus t, so it contains neither t nor head, and
\* getAvailableHiddenSlots(null) is empty; getSkinRequiredHiddenSlots equals
\* getAvailableHiddenSlots(skin).
C23_SlotLists ==
    /\ HasReturned("getAvailableTargetSlots") =>
           /\ Entries(Returned("getAvailableTargetSlots")) = Slot \ {"head"}
           /\ Len(Returned("getAvailableTargetSlots")) = 14
           /\ NoDuplicates(Returned("getAvailableTargetSlots"))
    /\ (HasReturned("getAvailableHiddenSlots") /\ selection.targetSlot \in Slot) =>
           /\ selection.targetSlot \notin Entries(Returned("getAvailableHiddenSlots"))
           /\ "head" \notin Entries(Returned("getAvailableHiddenSlots"))
           /\ Entries(Returned("getAvailableHiddenSlots"))
                  = (Slot \ {"head"}) \ {selection.targetSlot}
           /\ NoDuplicates(Returned("getAvailableHiddenSlots"))
           /\ HasReturned("getAvailableTargetSlots") =>
                  Returned("getAvailableHiddenSlots")
                      = Without(Returned("getAvailableTargetSlots"), selection.targetSlot)
    /\ (HasReturned("getAvailableHiddenSlots") /\ selection.targetSlot = null) =>
           Returned("getAvailableHiddenSlots") = << >>
    /\ ( /\ HasReturned("getSkinRequiredHiddenSlots")
         /\ HasReturned("getAvailableHiddenSlots")
         /\ selection.targetSlot = "skin" ) =>
           Returned("getSkinRequiredHiddenSlots") = Returned("getAvailableHiddenSlots")
    /\ HasReturned("getSkinRequiredHiddenSlots") =>
           /\ Len(Returned("getSkinRequiredHiddenSlots")) = 13
           /\ Entries(Returned("getSkinRequiredHiddenSlots")) = Slot \ {"head", "skin"}

\* for skin the hidden choices are the 13 other target slots, the list skin
\* requires
C23_Witness ==
    /\ HasReturned("getAvailableTargetSlots")
    /\ HasReturned("getAvailableHiddenSlots")
    /\ HasReturned("getSkinRequiredHiddenSlots")
    /\ selection.targetSlot = "skin"
    /\ Len(Returned("getAvailableHiddenSlots")) = 13
    /\ Returned("getSkinRequiredHiddenSlots") = Returned("getAvailableHiddenSlots")

(***************************************************************************)
(* Properties of malformed selections (of SpecMalformed).                  *)
(***************************************************************************)
\* sum of the base allowances over the entries of a list that are slots
RECURSIVE KnownSum(_)
KnownSum(seq) ==
    IF Len(seq) = 0
    THEN 0
    ELSE KnownSum(SubSeq(seq, 1, Len(seq) - 1))
         + (IF seq[Len(seq)] \in Slot THEN ExpectedBase(seq[Len(seq)]) ELSE 0)

\* C22 as stated: an identifier in hiddenSlots that is none of the 15 slots
\* contributes 0 to the budget sum and causes no error: computeTriangleBudget
\* returns the sum over the known entries (outside the skin, hands and helmet
\* overrides the base of the target plus that sum), and runValidation returns
\* a report decided against that budget.
C22_UnknownContributesZero ==
    /\ HasReturned("computeTriangleBudget") =>
           Returned("computeTriangleBudget") =
               IF selection.targetSlot = "skin" THEN 5000
               ELSE IF selection.targetSlot = "hands" /\ HandHidesBase(selection) THEN 1500
               ELSE IF selection.targetSlot = "helmet" /\ HidesWholeHead(selection) THEN 4000
               ELSE ExpectedBase(selection.targetSlot) + KnownSum(selection.hiddenSlots)
    /\ HasReturned("runValidation") =>
           /\ Report.overall \in {"PASS", "WARN", "FAIL"}
           /\ Report.appliedTriangleBudget >= ExpectedBase(selection.targetSlot)

\* hat hiding [constructor]: the budget is no number, and the report fails a
\* model of 1000 triangles on the triangles rule
C22_Witness ==
    /\ HasReturned("computeTriangleBudget")
    /\ HasReturned("runValidation")
    /\ selection.targetSlot = "hat"
    /\ selection.hiddenSlots = << "constructor" >>
    /\ Returned("computeTriangleBudget") = NonNumber
    /\ modelStats.triangleCount = 1000
    /\ Rule("triangles").result = "FAIL"
    /\ Report.overall = "FAIL"

C25_NoDuplicateNoTarget ==
    /\ NoDuplicates(selection.hiddenSlots)
    /\ ~includes(selection.hiddenSlots, selection.targetSlot)

\* skin was chosen, then helmet: every other target slot is hidden, helmet
\* itself is not
C25_Witness ==
    /\ selection.targetSlot = "helmet"
    /\ Len(selection.hiddenSlots) = 12
    /\ NoDuplicates(selection.hiddenSlots)
    /\ ~includes(selection.hiddenSlots, "helmet")

C27_SkinHidesAll ==
    selection.targetSlot = "skin" =>
        /\ selection.hiddenSlots = getSkinRequiredHiddenSlots
        /\ Len(selection.hiddenSlots) = 13
        /\ Entries(selection.hiddenSlots) = Slot \ {"head", "skin"}
        /\ \A slot \in Entries(getAvailableHiddenSlots("skin")) :
               handleHiddenSlotToggle(selection, slot) = selection

\* skin chosen after hat and mask had been hidden
C27_Witness ==
    /\ selection.targetSlot = "skin"
    /\ selection.hiddenSlots = getSkinRequiredHiddenSlots
    /\ Len(selection.hiddenSlots) = 13
    /\ selection.handHidesBase

(***************************************************************************)
(* Properties of loading and analysing (of SpecFiles, of SpecApp).         *)
(***************************************************************************)
\* the dropped file a scene was parsed from
SourceOf(model) == CHOOSE file \in DroppedFiles : file.scene = model

\* the handleFile calls made have all run to completion and loaded a model
AllLoaded ==
    /\ CallsOf("handleFile") # {}
    /\ \A i \in CallsOf("handleFile") : pending[i].pc = "loaded"

StoredReport == store.validationReport[1]

\* the report handleAnalyze computes from the store for a hat
HatReport ==
    handleAnalyze_report(store, store.model[1],
                         [targetSlot |-> "hat", hiddenSlots |-> << >>,
                          handHidesBase |-> FALSE])

\* C28 as stated: once the handleFile calls made have all loaded their model,
\* the store's model and modelStats are the ones derived from the file in
\* store.file, and the report Analyze computes for that model carries the
\* name and the size of the file the model was parsed from.
C28_ModelMatchesFile ==
    (AllLoaded /\ store.model # << >>) =>
        /\ store.file # << >>
        /\ store.model = << store.file[1].scene >>
        /\ store.modelStats = << analyzeModel(store.file[1].scene, store.file[1].size) >>
        /\ HatReport.fileName = SourceOf(store.model[1]).name
        /\ HatReport.modelStats.fileSizeBytes = SourceOf(store.model[1]).size

\* a.glb was dropped, then B.GLB; B.GLB was parsed first: the store holds the
\* scene and the statistics of a.glb beside the file B.GLB, and Analyze fails
\* the 500 KB model on the file-size rule, under the name B.GLB
C28_Witness ==
    /\ AllLoaded
    /\ Len(pending) = 2
    /\ store.file # << >>
    /\ store.file[1].name = << "B", "GLB" >>
    /\ store.model = << [id |-> "a", triangleCount |-> 1000] >>
    /\ store.modelStats # << >>
    /\ store.modelStats[1].fileSizeBytes = 500 * 1024
    /\ HatReport.fileName = << "B", "GLB" >>
    /\ HatReport.modelStats.triangleCount = 1000
    /\ HatReport.modelStats.fileSizeBytes = 4 * 1024 * 1024
    /\ \E i \in 1..Len(HatReport.results) :
           /\ HatReport.results[i].id = "file-size"
           /\ HatReport.results[i].result = "FAIL"
    /\ HatReport.overall = "FAIL"

\* a step in which a handleFile call returns because of the file's name
Rejects ==
    /\ Len(pending') = Len(pending) + 1
    /\ pending'[Len(pending')] = Ended("handleFile", "rejected")

\* a step in which a handleFile call ends in its catch block
Throws ==
    \E i \in 1..Len(pending) :
        /\ pending[i].pc \in {"arrayBuffer", "parseAsync"}
        /\ pending'[i] = Ended("handleFile", "failed")

AnalyzeBegins ==
    /\ Len(pending') = Len(pending) + 1
    /\ pending'[Len(pending')].handler = "handleAnalyze"

\* C30: validationReport changes only in the step of handleAnalyze that calls
\* setValidationReport, or in reset: no change of targetSlot, hiddenSlots or
\* handHidesBase and no handleFile step changes it; handleAnalyze goes on
\* to a report only when called with a model and a target slot, so every
\* stored report is for a target slot and for the statistics of a loaded
\* scene.
C30_ReportChangesOnlyByAnalyze ==
    /\ [][ /\ store'.validationReport # store.validationReport =>
                  \/ \E i \in 1..Len(pending) : HandleAnalyzeImported(i)
                  \/ Reset
           /\ AnalyzeBegins =>
                  /\ store.model # << >>
                  /\ selection.targetSlot \in Slot ]_vars
    /\ [](store.validationReport # << >> =>
              /\ StoredReport.targetSlot \in Slot
              /\ \E file \in AppFiles :
                     StoredReport.modelStats.triangleCount = file.scene.triangleCount)

\* the stored report is for a hat and the scene of a.glb; since then the
\* target has become hands and B.GLB has been loaded
C30_Witness ==
    /\ store.validationReport # << >>
    /\ StoredReport.targetSlot = "hat"
    /\ StoredReport.modelStats.triangleCount = 1000
    /\ selection.targetSlot = "hands"
    /\ StoredReport.appliedTriangleBudget # computeTriangleBudget(selection)
    /\ store.model = << [id |-> "B", triangleCount |-> 2000] >>

====
